---- MODULE Spec2Model ----
(***************************************************************************)
(* A model of the lottery bot of src/bot.py: the users, tickets, referrals *)
(* and withdrawals tables of the SQLite store, the per-user conversation   *)
(* state, and the update handlers start, verify_join_and_device, profile,  *)
(* change_upi, capture_upi and withdraw running as concurrent tasks.  The  *)
(* admin's round end and settlement and the confirmation of a withdrawal   *)
(* are not in the source file; they follow the operation contracts.        *)
(*                                                                         *)
(* Concurrency.  The dispatcher runs every update in a task of its own and *)
(* every handler opens a connection of its own, so handlers interleave at  *)
(* their awaits.  A SELECT reads the committed store (the sqlite3 module   *)
(* opens a transaction only before INSERT/UPDATE/DELETE).  The first       *)
(* writing statement of a connection takes the store's single write lock   *)
(* and keeps it until commit() or until the connection is closed, so the   *)
(* statements from the first write to the commit are one action here: no   *)
(* other connection can write or observe anything in between.  A           *)
(* connection closed without commit() loses its writes.                    *)
(***************************************************************************)
EXTENDS Integers, Sequences, FiniteSets, TLC

\* ------------------------------------------------------------- bounds
NumUsers == 2
NumCodes == 4
NumProcs == 2
MaxCalls == 3

Users == 1 .. NumUsers
Codes == 1 .. NumCodes
Procs == 1 .. NumProcs

\* Python's None / SQL NULL in an integer column; an absent text is <<>>.
NULL == 0
NoUpi == << >>

VARIABLES
    users,       \* rows of table users, in rowid order
    tickets,     \* rows of table tickets, in id order
    referrals,   \* rows of table referrals, in id order
    withdrawals, \* rows of table withdrawals, in id order
    prompts,     \* the "Withdraw full balance?" messages sent, in order
    settings,    \* table settings: the value text of each key, or NoRow
    pinned,      \* history: the value set_setting stored last for each key
    fsm,         \* the FSM storage: each user's conversation state
    pst,         \* each task's handler, position and locals
    quota,       \* handler invocations the dispatcher may still start
    awarded,     \* history: Awarded outcomes of award_welcome_ticket, per user
    rejected,    \* history: award_welcome_ticket took the same-device branch
    credits,     \* history: referral tickets inserted on account of a referee
    passed,      \* history: referees awarded with both accounts passing the device check
    lateAward,   \* history: users awarded by a call that began after their rejection
    issued,      \* history: committed ticket inserts, per code
    startDone,   \* history: a start call of the user ran to its end
    everUpi,     \* history: <<user, upi>> pairs ever committed
    last         \* history: outcome of the handler that finished last

vars == << users, tickets, referrals, withdrawals, prompts, settings, pinned, fsm, pst, quota, awarded, rejected,
           credits, passed, lateAward, issued, startDone, everUpi, last >>

hist == << awarded, rejected, credits, passed, lateAward, issued, startDone, everUpi >>

\* ------------------------------------------------------------- tables
NewUser(id, ref) ==
    [ user_id |-> id, ref_by |-> ref, upi |-> NoUpi, balance_cents |-> 0,
      total_won_cents |-> 0, last_win_round |-> NULL, welcomes_given |-> 0 ]

UserRows(us, id) == { i \in 1 .. Len(us) : us[i].user_id = id }

HasUser(us, id) == UserRows(us, id) # {}

\* fetchone() of a SELECT ... WHERE user_id=?: the first matching row.
UserRow(us, id) == us[CHOOSE i \in UserRows(us, id) : \A j \in UserRows(us, id) : i <= j]

\* INSERT INTO users without the primary key: a second row for the id.
InsertUserNoKey(us, id, ref) == [ ok |-> TRUE, rows |-> Append(us, NewUser(id, ref)) ]

\* INSERT INTO users: user_id is the PRIMARY KEY, a second row for an id is an
\* IntegrityError (ok = FALSE) and the table is unchanged.
InsertUser(us, id, ref) ==
    IF HasUser(us, id)
    THEN [ ok |-> FALSE, rows |-> us ]
    ELSE [ ok |-> TRUE, rows |-> Append(us, NewUser(id, ref)) ]

UpdateUser(us, id, field, val) ==
    [ i \in 1 .. Len(us) |->
        IF us[i].user_id = id THEN [ us[i] EXCEPT ![field] = val ] ELSE us[i] ]

HasCode(ts, c) == \E i \in 1 .. Len(ts) : ts[i].code = c

\* INSERT INTO tickets: code is UNIQUE, a second row for a code is an
\* IntegrityError.
InsertTicket(ts, uid, c, rnd) ==
    IF HasCode(ts, c)
    THEN [ ok |-> FALSE, rows |-> ts ]
    ELSE [ ok |-> TRUE, rows |-> Append(ts, [ user_id |-> uid, code |-> c, round |-> rnd ]) ]

MaxOf(S) == IF S = {} THEN 0 ELSE CHOOSE m \in S : \A x \in S : x <= m

\* SELECT COALESCE(MAX(round), 0) FROM tickets, then "max_round if max_round > 0 else 1".
CurrentRound(ts) ==
    LET max_round == MaxOf({ ts[i].round : i \in 1 .. Len(ts) })
    IN  IF max_round > 0 THEN max_round ELSE 1

\* unique_ticket: the codes the loop can return, those with no row in tickets.
FreshCodes(ts) == { c \in Codes : ~HasCode(ts, c) }

\* UPDATE referrals SET valid=1 WHERE referee=? AND referrer=?
ValidateRows(rs, referee, referrer) ==
    [ i \in 1 .. Len(rs) |->
        IF rs[i].referee = referee /\ rs[i].referrer = referrer
        THEN [ rs[i] EXCEPT !.valid = 1 ] ELSE rs[i] ]

\* ------------------------------------------------------------- tasks
\* What profile shows of a user with no row.
NoProfile == [ upi |-> NoUpi, balance_cents |-> 0, total_won_cents |-> 0,
               last_win_round |-> NULL, ticket_count |-> 0 ]

Idle == [ pc |-> "idle", u |-> NULL, ref |-> NULL, code |-> NULL, round |-> NULL,
          upi |-> NoUpi, late |-> FALSE, reg |-> FALSE, row |-> NoProfile,
          chan |-> "none", key |-> 0, early |-> {} ]

NoOutcome == [ h |-> "none", u |-> NULL, res |-> "none", reg |-> FALSE, profile |-> NoProfile,
               n |-> 0, codes |-> {}, got |-> << >>, early |-> {} ]

At(p, label) == pst[p].pc = label

Goto(p, label) == pst' = [ pst EXCEPT ![p].pc = label ]

Finish(p, handler, result) ==
    /\ pst' = [ pst EXCEPT ![p] = Idle ]
    /\ last' = [ NoOutcome EXCEPT !.h = handler, !.u = pst[p].u, !.res = result,
                                  !.reg = pst[p].reg ]

\* A handler that ends where it began: the task is free again.
Answer(p, u, handler, result) ==
    /\ pst' = [ pst EXCEPT ![p] = Idle ]
    /\ last' = [ NoOutcome EXCEPT !.h = handler, !.u = u, !.res = result,
                                  !.reg = HasUser(users, u) ]

\* The dispatcher starts a handler in a free task, while the run's quota of
\* handler invocations lasts.
Dispatch(p) == At(p, "idle") /\ quota > 0 /\ quota' = quota - 1

tables == << users, tickets, referrals >>

budget == << quota >>

\* What the withdrawal handlers write.
ledger == << withdrawals, prompts >>

\* What ensure_db and set_setting write.
config == << settings, pinned >>

\* ------------------------------------------------------------- start
\* The ids a referral link can carry: the users, and one account that never
\* talks to the bot.
RefIds == 1 .. NumUsers + 1

\* The text after "/start": nothing, "ref_<n>", or "ref_" followed by a
\* non-number.
StartArgs ==
    { [ kind |-> "none", n |-> NULL ], [ kind |-> "badref", n |-> NULL ] }
        \cup { [ kind |-> "ref", n |-> n ] : n \in RefIds }

\* The links among the users themselves.
UserLinks == { arg \in StartArgs : arg.kind = "ref" /\ arg.n \in Users }

\* ref_by as the handler parses it: int(args[1][4:]) when the argument starts
\* with "ref_", None on ValueError or without such an argument.
ParseRef(arg) == IF arg.kind = "ref" THEN arg.n ELSE NULL

\* "if ref_by and ref_by != m.from_user.id": the only branch that records a
\* referral, and the only one that commits.
RecordsReferral(ref, uid) == ref # NULL /\ ref # uid

\* start up to the SELECT of get_or_create_user (ensure_db before it touches
\* only the settings): a row found returns without inserting.  The dispatch
\* reads nothing of the store, so it is one step with the handler's first read.
StartBegin(p, u, arg) ==
    /\ Dispatch(p)
    /\ pst' = [ pst EXCEPT ![p] =
                  [ Idle EXCEPT !.pc = IF HasUser(users, u) THEN "start_ref" ELSE "start_ins",
                                !.u = u, !.ref = ParseRef(arg), !.reg = HasUser(users, u) ] ]
    /\ UNCHANGED << tables, fsm, hist, last >>
    /\ UNCHANGED << ledger, config >>

\* The INSERT of get_or_create_user, the INSERT into referrals and the commit.
\* Without a referral nothing is committed and closing the connection drops
\* the new user row.
StartInsert(p) ==
    /\ At(p, "start_ins")
    /\ LET u == pst[p].u
           ref == pst[p].ref
           ins == InsertUser(users, u, ref)
       IN  IF ~ins.ok
           THEN /\ Finish(p, "start", "IntegrityError")
                /\ UNCHANGED << tables, startDone >>
           ELSE IF RecordsReferral(ref, u)
           THEN /\ users' = ins.rows
                /\ referrals' = Append(referrals,
                                       [ referrer |-> ref, referee |-> u, valid |-> 0 ])
                /\ startDone' = [ startDone EXCEPT ![u] = TRUE ]
                /\ Finish(p, "start", "ok")
                /\ UNCHANGED tickets
           ELSE /\ startDone' = [ startDone EXCEPT ![u] = TRUE ]
                /\ Finish(p, "start", "ok")
                /\ UNCHANGED tables
    /\ UNCHANGED << fsm, budget, awarded, rejected, credits, passed, lateAward, issued, everUpi >>
    /\ UNCHANGED << ledger, config >>

\* start for a user that get_or_create_user found: only the referral insert.
StartReferral(p) ==
    /\ At(p, "start_ref")
    /\ LET u == pst[p].u
           ref == pst[p].ref
       IN  /\ referrals' = IF RecordsReferral(ref, u)
                           THEN Append(referrals,
                                       [ referrer |-> ref, referee |-> u, valid |-> 0 ])
                           ELSE referrals
           /\ startDone' = [ startDone EXCEPT ![u] = TRUE ]
           /\ Finish(p, "start", "ok")
    /\ UNCHANGED << users, tickets, fsm, budget, awarded, rejected, credits, passed,
                    lateAward, issued, everUpi >>
    /\ UNCHANGED << ledger, config >>

\* ------------------------------------------------------------- verify
\* What get_chat_member can come to: a status that counts as joined
\* ("administrator" and "creator" are treated as "member" is), a status that
\* does not, or an exception.
ChannelAnswers == { "member", "left", "error" }

\* An is_in_channel that takes the failed call for a pass.
IsInChannelOrFailed(answer) == answer \in { "member", "administrator", "creator", "error" }

\* is_in_channel: status in {"member", "administrator", "creator"}, False when
\* the call raises.
IsInChannel(answer) == answer \in { "member", "administrator", "creator" }

\* An award_welcome_ticket that takes no flag for a claim.
NeverClaimed(us, u) == FALSE

\* award_welcome_ticket's "if row[0] == 1: return False".
AlreadyClaimed(us, u) == UserRow(us, u).welcomes_given = 1

\* same_device_detected: the answer of the device check the hook is for.  The
\* stub in the source answers False; the branches that act on True are in the
\* code and the deployed check decides, so both answers are inputs here.
DeviceAnswers == BOOLEAN

\* verify_join_and_device up to the SELECT welcomes_given of
\* award_welcome_ticket: a user who is not in the channel is answered and
\* nothing is opened; otherwise the two early returns, and the device check
\* that follows the SELECT without an await.
VerifyBegin(p, u, answer, device) ==
    /\ Dispatch(p)
    /\ IF ~IsInChannel(answer)
       THEN Answer(p, u, "verify", "NotInChannel")
       ELSE IF ~HasUser(users, u)
       THEN Answer(p, u, "verify", "NotFound")
       ELSE IF AlreadyClaimed(users, u)
       THEN Answer(p, u, "verify", "AlreadyClaimed")
       ELSE /\ pst' = [ pst EXCEPT ![p] =
                          [ Idle EXCEPT !.pc = IF device THEN "award_rej" ELSE "award_code",
                                        !.u = u, !.late = rejected[u], !.reg = TRUE,
                                        !.chan = answer ] ]
            /\ UNCHANGED last
    /\ UNCHANGED << tables, fsm, hist >>
    /\ UNCHANGED << ledger, config >>

\* The same-device branch: UPDATE users SET welcomes_given=0, commit, False.
AwardReject(p) ==
    /\ At(p, "award_rej")
    /\ users' = UpdateUser(users, pst[p].u, "welcomes_given", 0)
    /\ rejected' = [ rejected EXCEPT ![pst[p].u] = TRUE ]
    /\ Finish(p, "verify", "DeviceRejected")
    /\ UNCHANGED << tickets, referrals, fsm, budget, awarded, credits, passed, lateAward, issued,
                    startDone, everUpi >>
    /\ UNCHANGED << ledger, config >>

\* unique_ticket: generate until the SELECT finds no row with the code.
AwardCode(p, c) ==
    /\ At(p, "award_code")
    /\ c \in FreshCodes(tickets)
    /\ pst' = [ pst EXCEPT ![p].code = c, ![p].pc = "award_round" ]
    /\ UNCHANGED << tables, fsm, budget, hist, last >>
    /\ UNCHANGED << ledger, config >>

\* SELECT COALESCE(MAX(round), 0) FROM tickets
AwardRound(p) ==
    /\ At(p, "award_round")
    /\ pst' = [ pst EXCEPT ![p].round = CurrentRound(tickets), ![p].pc = "award_ins" ]
    /\ UNCHANGED << tables, fsm, budget, hist, last >>
    /\ UNCHANGED << ledger, config >>

\* INSERT INTO tickets, UPDATE users SET welcomes_given=1, commit: True.
AwardInsert(p) ==
    /\ At(p, "award_ins")
    /\ LET u == pst[p].u
           ins == InsertTicket(tickets, u, pst[p].code, pst[p].round)
       IN  IF ~ins.ok
           THEN /\ Finish(p, "verify", "IntegrityError")
                /\ UNCHANGED << tables, awarded, issued, lateAward >>
           ELSE /\ tickets' = ins.rows
                /\ lateAward' = IF pst[p].late THEN lateAward \cup { u } ELSE lateAward
                /\ users' = UpdateUser(users, u, "welcomes_given", 1)
                /\ awarded' = [ awarded EXCEPT ![u] = @ + 1 ]
                /\ issued' = [ issued EXCEPT ![pst[p].code] = @ + 1 ]
                /\ Goto(p, "ref_sel")
                /\ UNCHANGED << referrals, last >>
    /\ UNCHANGED << fsm, budget, rejected, credits, passed, startDone, everUpi >>
    /\ UNCHANGED << ledger, config >>

\* try_award_referral: SELECT ref_by, then the device check of both accounts.
RefSelect(p, devReferee, devReferrer) ==
    /\ At(p, "ref_sel")
    /\ LET u == pst[p].u
       IN  IF ~HasUser(users, u) \/ UserRow(users, u).ref_by = NULL
                \/ devReferee \/ devReferrer
           THEN /\ Finish(p, "verify", "Awarded")
                /\ UNCHANGED passed
           ELSE /\ pst' = [ pst EXCEPT ![p].ref = UserRow(users, u).ref_by,
                                       ![p].pc = "ref_txn" ]
                /\ passed' = passed \cup { u }
                /\ UNCHANGED last
    /\ UNCHANGED << tables, fsm, budget, awarded, rejected, credits, lateAward, issued,
                    startDone, everUpi >>
    /\ UNCHANGED << ledger, config >>

\* try_award_referral from its UPDATE to its commit: the rows of the pair are
\* marked valid and the referrer gets a ticket with a code unique_ticket found
\* and the round read inside the same transaction.
RefCredit(p, c) ==
    /\ At(p, "ref_txn")
    /\ c \in FreshCodes(tickets)
    /\ LET u == pst[p].u
       IN  /\ referrals' = ValidateRows(referrals, u, pst[p].ref)
           /\ tickets' = InsertTicket(tickets, pst[p].ref, c, CurrentRound(tickets)).rows
           /\ credits' = [ credits EXCEPT ![u] = @ + 1 ]
           /\ issued' = [ issued EXCEPT ![c] = @ + 1 ]
    /\ Finish(p, "verify", "Awarded")
    /\ UNCHANGED << users, fsm, budget, awarded, rejected, passed, lateAward, startDone,
                    everUpi >>
    /\ UNCHANGED << ledger, config >>

\* ------------------------------------------------------------- profile
\* What the users row and the tickets table hold of a user.
TicketCount(ts, u) == Cardinality({ i \in 1 .. Len(ts) : ts[i].user_id = u })

StoredProfile(us, ts, u) ==
    [ upi |-> UserRow(us, u).upi,
      balance_cents |-> UserRow(us, u).balance_cents,
      total_won_cents |-> UserRow(us, u).total_won_cents,
      last_win_round |-> UserRow(us, u).last_win_round,
      ticket_count |-> TicketCount(ts, u) ]

\* "a, b, c, d = await cur.fetchone() if (await cur.fetchone()) else (...)":
\* the condition takes the row of the SELECT, the second fetchone() of the same
\* cursor returns None, and unpacking None is a TypeError.  Without a row the
\* defaults are taken.
DoubleFetch(us, u) == IF HasUser(us, u) THEN "TypeError" ELSE "ok"

\* profile up to its first SELECT and the double fetchone().
ProfileBegin(p, u) ==
    /\ Dispatch(p)
    /\ IF DoubleFetch(users, u) = "TypeError"
       THEN Answer(p, u, "profile", "TypeError")
       ELSE /\ pst' = [ pst EXCEPT ![p] =
                          [ Idle EXCEPT !.pc = "prof_sel", !.u = u,
                                        !.reg = HasUser(users, u) ] ]
            /\ UNCHANGED last
    /\ UNCHANGED << tables, fsm, hist >>
    /\ UNCHANGED << ledger, config >>

\* The second SELECT of the users row ("fix by requery").
ProfileRequery(p) ==
    /\ At(p, "prof_sel")
    /\ LET u == pst[p].u
       IN  pst' = [ pst EXCEPT ![p].pc = "prof_cnt",
                               ![p].row = IF HasUser(users, u)
                                          THEN StoredProfile(users, << >>, u)
                                          ELSE NoProfile ]
    /\ UNCHANGED << tables, fsm, budget, hist, last >>
    /\ UNCHANGED << ledger, config >>

\* SELECT COUNT(1) FROM tickets WHERE user_id=?, and the answer.
ProfileCount(p) ==
    /\ At(p, "prof_cnt")
    /\ pst' = [ pst EXCEPT ![p] = Idle ]
    /\ last' = [ h |-> "profile", u |-> pst[p].u, res |-> "ok", reg |-> pst[p].reg,
                 profile |-> [ pst[p].row EXCEPT !.ticket_count =
                                                   TicketCount(tickets, pst[p].u) ] ]
    /\ UNCHANGED << tables, fsm, budget, hist >>
    /\ UNCHANGED << ledger, config >>

\* ------------------------------------------------------------- payment id
\* A message text as its characters: "a" and "b" are word characters (\w),
\* " " is whitespace, "!" any other character.
UpiTexts == { << " ", "a", "@", "b" >>, << "b", "@", "a", ".", "b" >>, << "a", "b" >>,
              << "a", "!", "@", "b" >> }

RECURSIVE LStrip(_)
LStrip(s) == IF s # << >> /\ Head(s) = " " THEN LStrip(Tail(s)) ELSE s

RECURSIVE RStrip(_)
RStrip(s) == IF s # << >> /\ s[Len(s)] = " " THEN RStrip(SubSeq(s, 1, Len(s) - 1)) ELSE s

\* (m.text or "").strip()
Strip(s) == RStrip(LStrip(s))

WordChar(ch) == ch \in { "a", "b", "_" }

\* re.match(r"^[\w._-]+@[\w.-]+$", new_upi)
MatchesUpi(s) ==
    \E k \in 1 .. Len(s) :
        /\ s[k] = "@"
        /\ 1 < k /\ k < Len(s)
        /\ \A i \in 1 .. k - 1 : WordChar(s[i]) \/ s[i] \in { ".", "_", "-" }
        /\ \A i \in k + 1 .. Len(s) : WordChar(s[i]) \/ s[i] \in { ".", "-" }

\* SELECT user_id FROM users WHERE upi=?: the ids holding the identifier now.
HoldersOf(us, upi) == { us[i].user_id : i \in { j \in 1 .. Len(us) : us[j].upi = upi } }

\* "if row and row[0] != m.from_user.id"
LinkedToAnother(us, upi, u) == \E v \in HoldersOf(us, upi) : v # u

\* change_upi up to its first SELECT and the double fetchone().
ChangeUpiBegin(p, u) ==
    /\ Dispatch(p)
    /\ IF DoubleFetch(users, u) = "TypeError"
       THEN Answer(p, u, "change_upi", "TypeError")
       ELSE /\ pst' = [ pst EXCEPT ![p] =
                          [ Idle EXCEPT !.pc = "chg_sel", !.u = u,
                                        !.reg = HasUser(users, u) ] ]
            /\ UNCHANGED last
    /\ UNCHANGED << tables, fsm, hist >>
    /\ UNCHANGED << ledger, config >>

\* The second SELECT, the answer and state.set_state(waiting_for_upi).
ChangeUpiAsk(p) ==
    /\ At(p, "chg_sel")
    /\ fsm' = [ fsm EXCEPT ![pst[p].u] = "waiting_for_upi" ]
    /\ Finish(p, "change_upi", "ok")
    /\ UNCHANGED << tables, budget, hist >>
    /\ UNCHANGED << ledger, config >>

\* capture_upi is dispatched to a user in state waiting_for_upi; a text that
\* does not match is answered and the state kept.
CaptureBegin(p, u, text) ==
    /\ Dispatch(p)
    /\ fsm[u] = "waiting_for_upi"
    /\ IF ~MatchesUpi(Strip(text))
       THEN Answer(p, u, "capture_upi", "InvalidFormat")
       ELSE /\ pst' = [ pst EXCEPT ![p] =
                          [ Idle EXCEPT !.pc = "cap_sel", !.u = u, !.upi = Strip(text),
                                        !.reg = HasUser(users, u) ] ]
            /\ UNCHANGED last
    /\ UNCHANGED << tables, fsm, hist >>
    /\ UNCHANGED << ledger, config >>

\* SELECT user_id FROM users WHERE upi=?, and the duplicate answer.
CaptureSelect(p) ==
    /\ At(p, "cap_sel")
    /\ IF LinkedToAnother(users, pst[p].upi, pst[p].u)
       THEN Finish(p, "capture_upi", "DuplicatePaymentId")
       ELSE Goto(p, "cap_upd") /\ UNCHANGED last
    /\ UNCHANGED << tables, fsm, budget, hist >>
    /\ UNCHANGED << ledger, config >>

\* UPDATE users SET upi=? WHERE user_id=?, commit.  upi is UNIQUE: a value
\* another row holds by now is an IntegrityError.
CaptureUpdate(p) ==
    /\ At(p, "cap_upd")
    /\ LET u == pst[p].u
       IN  IF HasUser(users, u) /\ LinkedToAnother(users, pst[p].upi, u)
           THEN /\ Finish(p, "capture_upi", "IntegrityError")
                /\ UNCHANGED << users, everUpi >>
           ELSE /\ users' = UpdateUser(users, u, "upi", pst[p].upi)
                /\ everUpi' = IF HasUser(users, u)
                              THEN everUpi \cup { << u, pst[p].upi >> } ELSE everUpi
                /\ Goto(p, "cap_clear")
                /\ UNCHANGED last
    /\ UNCHANGED << tickets, referrals, fsm, budget, awarded, rejected, credits, passed,
                    lateAward, issued, startDone >>
    /\ UNCHANGED << ledger, config >>

\* state.clear() and the answer.
CaptureClear(p) ==
    /\ At(p, "cap_clear")
    /\ fsm' = [ fsm EXCEPT ![pst[p].u] = "none" ]
    /\ Finish(p, "capture_upi", "ok")
    /\ UNCHANGED << tables, budget, hist >>
    /\ UNCHANGED << ledger, config >>

\* ------------------------------------------------------------- round end
\* The admin's "End Round (clear ALL)": every ticket and referral row is
\* deleted in one transaction.  The round id is never stored: the next
\* issuance computes it from what the tickets table then holds.
EndRound ==
    /\ quota > 0
    /\ quota' = quota - 1
    /\ tickets' = << >>
    /\ referrals' = << >>
    /\ last' = [ NoOutcome EXCEPT !.h = "endround", !.res = "ok" ]
    /\ UNCHANGED << users, fsm, pst, hist >>
    /\ UNCHANGED << ledger, config >>

\* ------------------------------------------------------------- settlement
MaxPick == 2

\* The number of winners the admin asks for, and the prize per winning ticket.
PickCounts == 1 .. MaxPick

Prizes == { 50, 100 }

\* AllTicketsIn(currentRound): the ids of the ticket rows of the current round.
RoundTickets(ts) == { i \in 1 .. Len(ts) : ts[i].round = CurrentRound(ts) }

\* n draws that put the drawn ticket back: fewer than n tickets may come out.
DrawsWithReplacement(ts, n) ==
    { S \in SUBSET RoundTickets(ts) : S # {} /\ Cardinality(S) <= n }

\* The outcomes of drawing n distinct tickets without replacement.
Draws(ts, n) == { S \in SUBSET RoundTickets(ts) : Cardinality(S) = n }

\* The drawn tickets a user owns.
Wins(ts, S, u) == Cardinality({ i \in S : ts[i].user_id = u })

\* balanceCents += amount, totalWonCents += amount, lastWinRound = currentRound
\* for the owner of each drawn ticket, once per ticket.
Credit(us, ts, S, prize) ==
    [ i \in 1 .. Len(us) |->
        IF Wins(ts, S, us[i].user_id) = 0
        THEN us[i]
        ELSE [ us[i] EXCEPT !.balance_cents = @ + Wins(ts, S, us[i].user_id) * prize,
                            !.total_won_cents = @ + Wins(ts, S, us[i].user_id) * prize,
                            !.last_win_round = CurrentRound(ts) ] ]

\* The admin's "Select Winner(s)": InsufficientTickets when n exceeds the
\* tickets of the current round, otherwise all credits in one transaction.
SelectWinners(n, prize) ==
    /\ quota > 0
    /\ quota' = quota - 1
    /\ IF n > Cardinality(RoundTickets(tickets))
       THEN /\ last' = [ NoOutcome EXCEPT !.h = "pick", !.res = "InsufficientTickets", !.n = n ]
            /\ UNCHANGED users
       ELSE \E S \in Draws(tickets, n) :
               /\ users' = Credit(users, tickets, S, prize)
               /\ last' = [ NoOutcome EXCEPT !.h = "pick", !.res = "ok", !.n = n,
                                             !.codes = { tickets[i].code : i \in S } ]
    /\ UNCHANGED << tickets, referrals, ledger, config, fsm, pst, hist >>

\* ------------------------------------------------------------- withdrawal
\* "if cents < 100": the minimum balance for a withdrawal, in minor units.
MinWithdrawCents == 100

Balance(us, u) == UserRow(us, u).balance_cents

\* A withdraw that refuses only a negative balance.
BelowNothing(cents) == cents < 0

\* withdraw's "if cents < 100".
BelowMinimum(cents) == cents < MinWithdrawCents

\* The message of an accepted withdraw: the payment id and the amount it
\* shows, and whether its "Confirm Withdraw" button has been used.
Prompt(u, upi, cents) == [ user_id |-> u, upi |-> upi, cents |-> cents, status |-> "pending" ]

\* withdraw: one SELECT of the user's row, then the refusals or the prompt
\* with the two buttons.  The handler writes nothing to the store.
Withdraw(p, u) ==
    /\ Dispatch(p)
    /\ IF ~HasUser(users, u)
       THEN Answer(p, u, "withdraw", "NotFound") /\ UNCHANGED prompts
       ELSE IF UserRow(users, u).upi = NoUpi
       THEN Answer(p, u, "withdraw", "NoPaymentId") /\ UNCHANGED prompts
       ELSE IF BelowMinimum(Balance(users, u))
       THEN Answer(p, u, "withdraw", "BelowMinimum") /\ UNCHANGED prompts
       ELSE /\ Answer(p, u, "withdraw", "Prompt")
            /\ prompts' = Append(prompts, Prompt(u, UserRow(users, u).upi, Balance(users, u)))
    /\ UNCHANGED << tables, withdrawals, config, fsm, hist >>

\* A confirmation that debits whatever the balance is now.
NoRecheck(balance, amount) == TRUE

\* "re-checks current balance >= requested amount"
HasFunds(balance, amount) == balance >= amount

\* wd_actions on "wd:confirm" of the i-th prompt.  The handler reads the
\* user's payment id and balance again (its SELECT is the last line the
\* source has); what follows is the confirmation of the withdrawal contract:
\* in one transaction the balance now is checked against the amount of the
\* prompt, debited, and the withdrawal recorded as approved.
WdConfirm(p, i) ==
    /\ Dispatch(p)
    /\ i \in 1 .. Len(prompts)
    /\ prompts[i].status = "pending"
    /\ LET u == prompts[i].user_id
           amount == prompts[i].cents
       IN  IF ~HasFunds(Balance(users, u), amount)
           THEN /\ Answer(p, u, "wd_confirm", "InsufficientBalance")
                /\ UNCHANGED << users, withdrawals, prompts >>
           ELSE /\ users' = UpdateUser(users, u, "balance_cents", Balance(users, u) - amount)
                /\ withdrawals' = Append(withdrawals,
                                         [ user_id |-> u, amount_cents |-> amount,
                                           upi |-> UserRow(users, u).upi, status |-> "approved" ])
                /\ prompts' = [ prompts EXCEPT ![i].status = "approved" ]
                /\ Answer(p, u, "wd_confirm", "ok")
    /\ UNCHANGED << tickets, referrals, config, fsm, hist >>

\* ------------------------------------------------------------- settings
\* The keys of the settings table, in the order ensure_db looks them up.
Keys == << "draw_time", "reward_amount", "first_message" >>

KeySet == { Keys[i] : i \in 1 .. Len(Keys) }

KeyIndex(k) == CHOOSE i \in 1 .. Len(Keys) : Keys[i] = k

\* A key without a row.
NoRow == "NoRow"

\* The defaults of ensure_db and get_settings: "Every day at 8:00 PM",
\* str(5000) and FIRST_MESSAGE_DEFAULT.
Default(k) ==
    CASE k = "draw_time" -> "Every day at 8:00 PM"
      [] k = "reward_amount" -> "5000"
      [] OTHER -> "FIRST_MESSAGE_DEFAULT"

\* The value texts the admin stores for a key.
AdminTexts(k) ==
    CASE k = "draw_time" -> { "Sunday at noon" }
      [] k = "reward_amount" -> { "100", "5000" }
      [] OTHER -> { "Hello" }

\* int() of a stored reward text.
IntOf(text) == CASE text = "5000" -> 5000 [] text = "100" -> 100 [] OTHER -> 0

\* What get_settings makes of the value text of a key.
Shown(k, text) == IF k = "reward_amount" THEN IntOf(text) ELSE text

\* get_settings: every row read by one SELECT, m.get(key, default) for each
\* key, int() of the reward.
ReadSettings(st) ==
    [ k \in KeySet |-> Shown(k, IF st[k] = NoRow THEN Default(k) ELSE st[k]) ]

\* An ensure_db that writes its default whether or not a row is there.
AlwaysMissing(row) == TRUE

\* ensure_db's "if not row".
Missing(row) == row = NoRow

EnsureLabels == { "ens_sel", "ens_txn" }

\* start up to the first SELECT of ensure_db (the script that creates the
\* tables changes no row).  A key without a row sends the run to its INSERT.
EnsureBegin(p, u) ==
    /\ Dispatch(p)
    /\ pst' = [ pst EXCEPT ![p] =
                  [ Idle EXCEPT !.pc = IF Missing(settings[Keys[1]]) THEN "ens_txn" ELSE "ens_sel",
                                !.u = u, !.key = IF Missing(settings[Keys[1]]) THEN 1 ELSE 2,
                                !.reg = HasUser(users, u) ] ]
    /\ UNCHANGED << tables, ledger, config, fsm, hist, last >>

\* The SELECT of the next key outside a transaction; after the last key the
\* commit of ensure_db has nothing to write.
EnsureSelect(p) ==
    /\ At(p, "ens_sel")
    /\ IF pst[p].key > Len(Keys)
       THEN /\ pst' = [ pst EXCEPT ![p] = Idle ]
            /\ last' = [ NoOutcome EXCEPT !.h = "ensure_db", !.u = pst[p].u, !.res = "ok",
                                          !.early = pst[p].early ]
       ELSE /\ pst' = [ pst EXCEPT ![p].pc = IF Missing(settings[Keys[pst[p].key]])
                                             THEN "ens_txn" ELSE "ens_sel",
                                   ![p].key = IF Missing(settings[Keys[pst[p].key]])
                                              THEN @ ELSE @ + 1 ]
            /\ UNCHANGED last
    /\ UNCHANGED << tables, ledger, config, fsm, budget, hist >>

\* ensure_db from its first INSERT OR REPLACE to its commit: the default of
\* the key whose SELECT found no row replaces whatever row the key has by now,
\* and each later key is looked up inside the transaction and given its
\* default when it has no row.
EnsureWrite(p) ==
    /\ At(p, "ens_txn")
    /\ settings' = [ k \in KeySet |->
                       IF KeyIndex(k) = pst[p].key
                          \/ (KeyIndex(k) > pst[p].key /\ Missing(settings[k]))
                       THEN Default(k) ELSE settings[k] ]
    /\ pst' = [ pst EXCEPT ![p] = Idle ]
    /\ last' = [ NoOutcome EXCEPT !.h = "ensure_db", !.u = pst[p].u, !.res = "ok",
                                  !.early = pst[p].early ]
    /\ UNCHANGED << tables, ledger, pinned, fsm, budget, hist >>

\* set_setting: INSERT OR REPLACE of the key's row and commit.  The ensure_db
\* runs under way began before this change of the key.
SetSetting(p, k, v) ==
    /\ Dispatch(p)
    /\ settings' = [ settings EXCEPT ![k] = v ]
    /\ pinned' = [ pinned EXCEPT ![k] = v ]
    /\ pst' = [ q \in Procs |->
                  IF pst[q].pc \in EnsureLabels
                  THEN [ pst[q] EXCEPT !.early = @ \cup { k } ] ELSE pst[q] ]
    /\ last' = [ NoOutcome EXCEPT !.h = "set_setting", !.res = "ok" ]
    /\ UNCHANGED << tables, ledger, fsm, hist >>

\* get_settings, as start and my_tickets call it.
GetSettings(p) ==
    /\ Dispatch(p)
    /\ pst' = pst
    /\ last' = [ NoOutcome EXCEPT !.h = "get_settings", !.res = "ok",
                                  !.got = ReadSettings(settings) ]
    /\ UNCHANGED << tables, ledger, config, fsm, hist >>

\* ------------------------------------------------------------- specification
\* No handler is running.
Quiet == \A p \in Procs : At(p, "idle")

\* The store after ensure_db created its tables: all empty (the settings
\* table too: its defaults are written after the tables), no handler running,
\* q handler invocations to come.
InitWith(q) ==
    /\ users = << >>
    /\ tickets = << >>
    /\ referrals = << >>
    /\ withdrawals = << >>
    /\ prompts = << >>
    /\ settings = [ k \in KeySet |-> NoRow ]
    /\ pinned = [ k \in KeySet |-> NoRow ]
    /\ fsm = [ u \in Users |-> "none" ]
    /\ pst = [ p \in Procs |-> Idle ]
    /\ quota = q
    /\ awarded = [ u \in Users |-> 0 ]
    /\ rejected = [ u \in Users |-> FALSE ]
    /\ credits = [ u \in Users |-> 0 ]
    /\ passed = {}
    /\ lateAward = {}
    /\ issued = [ c \in Codes |-> 0 ]
    /\ startDone = [ u \in Users |-> FALSE ]
    /\ everUpi = {}
    /\ last = NoOutcome

Init == InitWith(MaxCalls)

MaxStartCalls == 3
MaxRoundCalls == 4

NextStart ==
    \E p \in Procs :
        \/ \E u \in Users, arg \in StartArgs : StartBegin(p, u, arg)
        \/ StartInsert(p)
        \/ StartReferral(p)

\* start calls alone, interleaved.
SpecStart == InitWith(MaxStartCalls) /\ [][NextStart]_vars

NextVerify ==
    \E p \in Procs :
        \/ \E u \in Users, arg \in StartArgs : StartBegin(p, u, arg)
        \/ StartInsert(p)
        \/ StartReferral(p)
        \/ \E u \in Users, answer \in ChannelAnswers, device \in DeviceAnswers :
              VerifyBegin(p, u, answer, device)
        \/ AwardReject(p)
        \/ \E c \in Codes : AwardCode(p, c)
        \/ AwardRound(p)
        \/ AwardInsert(p)
        \/ \E d1, d2 \in DeviceAnswers : RefSelect(p, d1, d2)
        \/ \E c \in Codes : RefCredit(p, c)

\* start and verify calls, interleaved.
Spec == Init /\ [][NextVerify]_vars

NextRound == NextVerify \/ EndRound

\* start and verify calls and round ends.
SpecRound == InitWith(MaxRoundCalls) /\ [][NextRound]_vars

MaxProfileCalls == 3
MaxUpiCalls == 7

NextProfile ==
    \/ NextVerify
    \/ \E p \in Procs :
        \/ \E u \in Users : ProfileBegin(p, u)
        \/ ProfileRequery(p)
        \/ ProfileCount(p)

\* start, verify and profile calls, interleaved.
SpecProfile == InitWith(MaxProfileCalls) /\ [][NextProfile]_vars

NextUpi ==
    \E p \in Procs :
        \/ \E u \in Users, arg \in UserLinks : StartBegin(p, u, arg)
        \/ StartInsert(p)
        \/ StartReferral(p)
        \/ \E u \in Users : ChangeUpiBegin(p, u)
        \/ ChangeUpiAsk(p)
        \/ \E u \in Users, text \in UpiTexts : CaptureBegin(p, u, text)
        \/ CaptureSelect(p)
        \/ CaptureUpdate(p)
        \/ CaptureClear(p)

\* start, change_upi and capture_upi calls, interleaved.  The referrer of a
\* start call plays no part in the payment id: start is called with the links
\* that name a user (the caller's own link registers nobody, another user's
\* link registers the caller).
SpecUpi == InitWith(MaxUpiCalls) /\ [][NextUpi]_vars

MaxClaimCalls == 2

\* start and verify calls, interleaved: a shorter run of Spec.
SpecClaim == InitWith(MaxClaimCalls) /\ [][NextVerify]_vars

MaxSequentialCalls == 3

NextSequential ==
    LET p == 1 IN
        \/ Quiet /\ \E u \in Users, arg \in StartArgs : StartBegin(p, u, arg)
        \/ StartInsert(p)
        \/ StartReferral(p)
        \/ Quiet /\ \E u \in Users, answer \in ChannelAnswers, device \in DeviceAnswers :
                        VerifyBegin(p, u, answer, device)
        \/ AwardReject(p)
        \/ \E c \in Codes : AwardCode(p, c)
        \/ AwardRound(p)
        \/ AwardInsert(p)
        \/ \E d1, d2 \in DeviceAnswers : RefSelect(p, d1, d2)
        \/ \E c \in Codes : RefCredit(p, c)

\* start and verify calls one after the other: a handler is dispatched when
\* the one before it has ended, so one task runs them all.
SpecSequential == InitWith(MaxSequentialCalls) /\ [][NextSequential]_vars

MaxSettleCalls == 3

NextSettle ==
    \/ NextSequential
    \/ Quiet /\ \E n \in PickCounts, prize \in Prizes : SelectWinners(n, prize)

\* start and verify calls and settlements, one after the other.
SpecSettle == InitWith(MaxSettleCalls) /\ [][NextSettle]_vars

\* The referrer whose link a user of the linked store started with.
Sponsor(u) == (u % NumUsers) + 1

\* The payment id of the linked store: the first of UpiTexts, stripped.
LinkedUpi == << "a", "@", "b" >>

\* A store the handlers above lead to from the empty one, by these calls one
\* after the other: user 1 presses Change UPI; every user u sends
\* /start ref_<Sponsor(u)>, in the order of the ids; user 1 sends " a@b";
\* user 1, a channel member, verifies and is awarded ticket 1, and the
\* referrer is credited ticket 2.  q handler invocations are to come.
InitLinked(q) ==
    /\ users = [ u \in 1 .. NumUsers |->
                   IF u = 1
                   THEN [ NewUser(1, Sponsor(1)) EXCEPT !.upi = LinkedUpi, !.welcomes_given = 1 ]
                   ELSE NewUser(u, Sponsor(u)) ]
    /\ tickets = << [ user_id |-> 1, code |-> 1, round |-> 1 ],
                    [ user_id |-> Sponsor(1), code |-> 2, round |-> 1 ] >>
    /\ referrals = [ u \in 1 .. NumUsers |->
                       [ referrer |-> Sponsor(u), referee |-> u,
                         valid |-> IF u = 1 THEN 1 ELSE 0 ] ]
    /\ withdrawals = << >>
    /\ prompts = << >>
    /\ settings = [ k \in KeySet |-> Default(k) ]
    /\ pinned = [ k \in KeySet |-> NoRow ]
    /\ fsm = [ u \in Users |-> "none" ]
    /\ pst = [ p \in Procs |-> Idle ]
    /\ quota = q
    /\ awarded = [ u \in Users |-> IF u = 1 THEN 1 ELSE 0 ]
    /\ rejected = [ u \in Users |-> FALSE ]
    /\ credits = [ u \in Users |-> IF u = 1 THEN 1 ELSE 0 ]
    /\ passed = { 1 }
    /\ lateAward = {}
    /\ issued = [ c \in Codes |-> IF c \in { 1, 2 } THEN 1 ELSE 0 ]
    /\ startDone = [ u \in Users |-> TRUE ]
    /\ everUpi = { << 1, LinkedUpi >> }
    /\ last = [ NoOutcome EXCEPT !.h = "verify", !.u = 1, !.res = "Awarded", !.reg = TRUE ]

MaxWalletCalls == 5

NextWallet ==
    \/ \E n \in PickCounts, prize \in Prizes : SelectWinners(n, prize)
    \/ \E p \in Procs :
        \/ \E u \in Users : Withdraw(p, u)
        \/ \E i \in 1 .. MaxWalletCalls : WdConfirm(p, i)

\* Settlements, withdraw calls and confirmations on the linked store.
SpecWallet == InitLinked(MaxWalletCalls) /\ [][NextWallet]_vars

MaxSettingsCalls == 4

NextSettings ==
    \E p \in Procs :
        \/ \E u \in Users : EnsureBegin(p, u)
        \/ EnsureSelect(p)
        \/ EnsureWrite(p)
        \/ \E k \in KeySet : \E v \in AdminTexts(k) : SetSetting(p, k, v)
        \/ GetSettings(p)

\* The ensure_db runs of start calls, set_setting and get_settings calls,
\* interleaved.  The rest of start touches no settings row.
SpecSettings == InitWith(MaxSettingsCalls) /\ [][NextSettings]_vars

\* ------------------------------------------------------------- properties
\* C1: concurrent award_welcome_ticket calls for one user give exactly one
\* Awarded outcome, the others AlreadyClaimed: no user is ever awarded (and
\* given a welcome ticket row) more than once.
C1_OneAwardPerUser == \A u \in Users : awarded[u] <= 1

\* C2: over the whole history try_award_referral inserts at most one ticket for
\* the referrer on account of one referee.
C2_OneCreditPerReferee == \A u \in Users : credits[u] <= 1

\* C3: with no handler in flight, a referral row has valid=1 if and only if its
\* referee's welcome award succeeded and referee and referrer both passed the
\* device check at that award.
C3_ValidIffAwardedAndPassed ==
    Quiet => \A i \in 1 .. Len(referrals) :
                 referrals[i].valid = 1
                    <=> (awarded[referrals[i].referee] >= 1 /\ referrals[i].referee \in passed)

\* C4: ticket codes are pairwise distinct over the whole history, also across a
\* round end: no code is committed to the tickets table twice.
C4_CodesNeverReused == \A c \in Codes : issued[c] <= 1

\* C6: once award_welcome_ticket has returned DeviceRejected for a user, no call
\* for that user that begins later issues a ticket.
C6_RejectedStaysRejected == lateAward = {}

\* C7: once a start call of a user has run to its end, a row of that user is
\* committed, whatever the referrer argument was.
C7_StartRegisters == \A u \in Users : startDone[u] => HasUser(users, u)

\* C8: there is at most one users row per id under any interleaving of start
\* calls, and a row's ref_by never changes after its creation (nor does the row
\* disappear), whatever referrer later start calls supply.
C8_OneRowFixedRefBy ==
    /\ [](\A u \in Users : Cardinality(UserRows(users, u)) <= 1)
    /\ [][\A u \in Users :
            HasUser(users, u) =>
                /\ HasUser(users', u)
                /\ UserRow(users', u).ref_by = UserRow(users, u).ref_by]_vars

\* C8's case: two start calls of one user raced (the loser's INSERT hit the
\* primary key), and a further start call of that registered user is running
\* with a referrer other than the recorded one.
C8_Witness ==
    /\ last.h = "start" /\ last.res = "IntegrityError"
    /\ \E p \in Procs :
          /\ At(p, "start_ref")
          /\ pst[p].u = last.u
          /\ HasUser(users, last.u)
          /\ pst[p].ref # UserRow(users, last.u).ref_by

\* C9: the referrals table holds at most one row per referee, and that row's
\* referrer is the referee's ref_by.
C9_OneReferralPerReferee ==
    \A i, j \in 1 .. Len(referrals) :
        /\ referrals[i].referee = referrals[j].referee => i = j
        /\ HasUser(users, referrals[i].referee)
        /\ UserRow(users, referrals[i].referee).ref_by = referrals[i].referrer

\* C5: a payment identifier that was ever linked to one user is never linked to
\* another, also after the first user has replaced it.
C5_UpiNeverReassigned ==
    \A x, y \in everUpi : x[2] = y[2] => x[1] = y[1]

\* C10: profile called for a registered user completes and returns the stored
\* payment id, balance, total won and last win round with the count of the
\* user's ticket rows.
C10_ProfileReturnsStored ==
    (last.h = "profile" /\ last.reg)
        => (last.res = "ok" /\ last.profile = StoredProfile(users, tickets, last.u))

\* C11: a capture_upi call ends with the identifier linked, refused as
\* malformed, or refused as DuplicatePaymentId (so does the loser of two
\* concurrent calls of different users with one free identifier, whose stored
\* id stays as it was), and no two users rows hold the same payment id.
C11_RaceLoserGetsDuplicate ==
    /\ \A i, j \in 1 .. Len(users) :
           (i # j /\ users[i].upi # NoUpi) => users[i].upi # users[j].upi
    /\ last.h = "capture_upi"
           => last.res \in { "ok", "InvalidFormat", "DuplicatePaymentId" }

\* C12: change_upi of a registered user completes and leaves the user in
\* waiting_for_upi; a capture_upi that stored a well-formed identifier leaves
\* the flow cleared and the user holding a payment id; a malformed identifier
\* keeps the flow waiting.
C12_ChangeUpiFlow ==
    /\ (last.h = "change_upi" /\ last.reg)
           => (last.res = "ok" /\ fsm[last.u] = "waiting_for_upi")
    /\ (last.h = "capture_upi" /\ last.res = "ok")
           => /\ fsm[last.u] = "none"
              /\ HasUser(users, last.u) => UserRow(users, last.u).upi # NoUpi
    /\ (last.h = "capture_upi" /\ last.res = "InvalidFormat")
           => fsm[last.u] = "waiting_for_upi"

\* C13: a round end that clears a round holding tickets leaves a current round
\* (the round the next issuance stamps on its ticket) strictly greater than the
\* round that ended.
C13_RoundAdvances ==
    [][(EndRound /\ tickets # << >>) => CurrentRound(tickets') > CurrentRound(tickets)]_vars

\* The referral rows of a referrer that refer and the leaderboard count.
ValidCount(rs, r) == Cardinality({ i \in 1 .. Len(rs) : rs[i].referrer = r /\ rs[i].valid = 1 })

\* The tickets a referrer holds beyond the welcome tickets awarded to it: no
\* ticket is deleted without a round end.
ReferralTickets(r) == TicketCount(tickets, r) - (IF r \in Users THEN awarded[r] ELSE 0)

\* C19: for every referrer the number of its referral rows with valid=1 equals
\* the number of referral tickets issued to it.
C19_ValidCountIsTickets ==
    \A r \in RefIds : ValidCount(referrals, r) = ReferralTickets(r)

\* C20: the owner of every ticket row has a row in users.
C20_TicketOwnerRegistered ==
    \A i \in 1 .. Len(tickets) : HasUser(users, tickets[i].user_id)

\* The positions of a verify call past its channel check.
AwardLabels == { "award_rej", "award_code", "award_round", "award_ins", "ref_sel", "ref_txn" }

\* C17: a verify call whose channel check answers a non-member status or fails
\* ends at once and changes no table row (no ticket, no welcome flag, no valid
\* referral), and every call that is past the check, and so every award, is of
\* a user whose check answered a member status.
C17_NoMembershipNoEffect ==
    /\ [](\A p \in Procs : pst[p].pc \in AwardLabels => pst[p].chan = "member")
    /\ [][\A p \in Procs, u \in Users, answer \in { "left", "error" }, device \in DeviceAnswers :
            VerifyBegin(p, u, answer, device)
                => /\ tables' = tables
                   /\ pst'[p] = Idle
                   /\ last'.res = "NotInChannel"]_vars

\* C17's case: the check failed for a registered user who has not claimed, so
\* only the check stood between the call and the award.
C17_Witness ==
    /\ last.h = "verify" /\ last.res = "NotInChannel"
    /\ HasUser(users, last.u)
    /\ UserRow(users, last.u).welcomes_given = 0
    /\ TicketCount(tickets, last.u) = 0

\* C18: a verify call of a member that begins when the user's welcomes_given is
\* 1 returns AlreadyClaimed at once, without reaching the referral validation
\* and without changing users, tickets or referrals; and welcomes_given stays 1
\* while no earlier call of the user is still on its way to the same-device
\* write (none is when the calls are sequential).
C18_ClaimedIsTerminal ==
    /\ [][\A p \in Procs, u \in Users, device \in DeviceAnswers :
            (VerifyBegin(p, u, "member", device)
                /\ HasUser(users, u) /\ UserRow(users, u).welcomes_given = 1)
                => /\ last'.res = "AlreadyClaimed"
                   /\ pst'[p] = Idle
                   /\ tables' = tables]_vars
    /\ [][\A u \in Users :
            (/\ HasUser(users, u)
             /\ UserRow(users, u).welcomes_given = 1
             /\ ~\E p \in Procs : At(p, "award_rej") /\ pst[p].u = u)
                => UserRow(users', u).welcomes_given = 1]_vars

\* C18's case: a user with a referrer was awarded, the referrer credited, and
\* a later call of the user was answered AlreadyClaimed.
C18_Witness ==
    /\ last.h = "verify" /\ last.res = "AlreadyClaimed"
    /\ Quiet
    /\ awarded[last.u] = 1
    /\ credits[last.u] = 1

\* C14: a settlement asked for n winners of a current round holding T tickets
\* selects n pairwise-distinct ticket codes of that round when n <= T, and when
\* n > T it fails with InsufficientTickets and changes no users row (no
\* balance, total won or last win round).
C14_SelectsDistinctOrFails ==
    /\ []((last.h = "pick" /\ last.res = "ok")
            => /\ Cardinality(last.codes) = last.n
               /\ \A c \in last.codes : \E i \in RoundTickets(tickets) : tickets[i].code = c)
    /\ [][\A n \in PickCounts, prize \in Prizes :
            SelectWinners(n, prize)
                => IF n <= Cardinality(RoundTickets(tickets))
                   THEN last'.res = "ok"
                   ELSE last'.res = "InsufficientTickets" /\ users' = users]_vars

\* C14's case: a settlement drew both tickets of a round that holds two, and
\* the registered owner was credited.
C14_Witness ==
    /\ last.h = "pick" /\ last.res = "ok"
    /\ last.n = 2
    /\ Cardinality(RoundTickets(tickets)) = 2
    /\ \E i \in 1 .. Len(users) : users[i].balance_cents > 0

\* The amounts of the withdrawals rows of a user, summed.
RECURSIVE Withdrawn(_, _)
Withdrawn(ws, u) ==
    IF ws = << >> THEN 0
    ELSE (IF Head(ws).user_id = u THEN Head(ws).amount_cents ELSE 0) + Withdrawn(Tail(ws), u)

\* C15: a confirmation checks the balance the user has at confirmation time:
\* below the requested amount it fails with InsufficientBalance and debits
\* nothing, otherwise it debits exactly the requested amount, once per request
\* (every debit is a recorded withdrawal: balance = total won - withdrawn);
\* and no balance_cents is ever negative.
C15_ConfirmRechecksBalance ==
    /\ [](\A i \in 1 .. Len(users) :
             /\ users[i].balance_cents >= 0
             /\ users[i].balance_cents
                    = users[i].total_won_cents - Withdrawn(withdrawals, users[i].user_id))
    /\ [](Len(withdrawals)
             = Cardinality({ i \in 1 .. Len(prompts) : prompts[i].status = "approved" }))
    /\ [][\A p \in Procs, i \in 1 .. Len(prompts) :
            WdConfirm(p, i)
                => IF Balance(users, prompts[i].user_id) < prompts[i].cents
                   THEN last'.res = "InsufficientBalance" /\ users' = users
                   ELSE /\ last'.res = "ok"
                        /\ Balance(users', prompts[i].user_id)
                               = Balance(users, prompts[i].user_id) - prompts[i].cents]_vars

\* C15's case: of two requests of one user the first was confirmed and
\* debited, and the confirmation of the second found the balance below its
\* amount.
C15_Witness ==
    /\ last.h = "wd_confirm" /\ last.res = "InsufficientBalance"
    /\ \E i, j \in 1 .. Len(prompts) :
          /\ prompts[i].user_id = last.u /\ prompts[i].status = "approved"
          /\ prompts[j].user_id = last.u /\ prompts[j].status = "pending"
          /\ Balance(users, last.u) < prompts[j].cents

\* Whether withdraw accepts the user: a row, a payment id, the minimum balance.
CanWithdraw(us, u) ==
    HasUser(us, u) /\ UserRow(us, u).upi # NoUpi /\ Balance(us, u) >= MinWithdrawCents

====
